---- MODULE Spec2Model ----
(***************************************************************************)
(* The program-slicing engine of data_pipeline/ls/test_big_file.py:        *)
(* reconstruct_minimal_context (dependency closure, type / global / macro  *)
(* extraction, assembly of the reconstructed unit) and extract_used_types. *)
(*                                                                         *)
(* A translation unit (program_code) is modelled by what the engine reads  *)
(* of it: the call sites of each function, the number of newline           *)
(* characters and of empty lines of each function's byte span, the words   *)
(* of each function's text, the struct / enum / typedef nodes of the tree, *)
(* the lines of the file and its file-scope declaration nodes.             *)
(***************************************************************************)
EXTENDS Integers, Sequences, FiniteSets, TLC

(***************************************************************************)
(* Bounds of the model.                                                    *)
(***************************************************************************)
MaxEdges == 4          \* call edges of a unit, closure inputs
MaxReachEdges == 2     \* call edges of a unit, termination and two-run inputs
MaxAsmEdges == 2       \* call edges of a unit, assembly inputs
MaxTypeEdges == 1      \* call edges of a unit, type inputs
MaxDepth == 2          \* max_depth is drawn from 0..MaxDepth and the default
RecursionLimit == 6    \* frames of find_dependencies the interpreter allows
LineSpread == 1        \* newline counts are drawn from 50 - LineSpread .. 50
MaxBlank == 2          \* empty lines inside a function's byte span
MaxTypeNodes == 1      \* struct / enum / typedef nodes of a unit
MaxChainEdges == 3     \* call edges of a unit, depth-bound and ordering inputs
MaxBatchEdges == 2     \* call edges of a unit, batch inputs
MaxCodeLen == 4        \* characters of a source text
MaxIncludeLen == 2     \* characters of an include line
MaxInjectables == 2    \* entries of the injectable-functions list
MaxLines == 3          \* lines on the standard input of the test harness
ListSpread == 1        \* list lengths are drawn from cap - ListSpread .. cap + ListSpread
MaxFunctions == 2      \* functions of the source file tests are generated for
MaxProgs == 2          \* programs of the list default_progs
MaxDefinitions == 3    \* function definitions of a unit that repeats names

(***************************************************************************)
(* Program constants.                                                      *)
(***************************************************************************)
DefaultMaxDepth == 10  \* max_depth: int = 10
FullBodyLimit == 50    \* lines < 50
MacroCap == 100        \* macros[:100]
GlobalCap == 50        \* globals_list[:50]
BatchMaxDepth == 10    \* max_depth=10 in __main__
TimeoutReturnCode == 1 \* CompletedProcess(cmd, returncode=1, ...) on TimeoutExpired

\* Names of the functions a unit defines.  "xmalloc" stands for the names of
\* the standard-library exclusion set that a unit may define itself.
stdlib_functions == {"xmalloc"}
Defined == {"foo", "bar", "baz"} \cup stdlib_functions

\* A name of the typedef whitelist of extract_used_types.
TypedefWhitelist == {"size_t"}

VARIABLES
  call_edges,     \* program_code: <<f, g>> iff the text of f holds a call g(...)
  func_shape,     \* program_code: per function, newlines and empty lines of its span
  func_words,     \* program_code: per function, the words of its text
  type_nodes,     \* program_code: struct / enum / typedef nodes, in tree order
  source_lines,   \* program_code: the lines of the file (those that matter to the macro scan)
  file_decls,     \* program_code: the 'declaration' children of the translation unit
  definitions,    \* program_code: the function_definition nodes, in traversal order
  all_functions,  \* names of the function records passed as all_functions
  target,         \* target_function['name']
  max_depth,
  needed_helpers, \* dict name -> depth, as the sequence of its items in insertion order
  stack,          \* active calls of find_dependencies, innermost last
  pc,
  structs, enums, typedefs,   \* result of extract_used_types
  globals_list, macros,
  context_parts,
  run, prev_output,           \* how many runs were made on this input, and the previous text
  \* the batch driver (__main__ of test_big_file.py)
  has_main,         \* program_code: find_main_function finds a node
  main_calls,       \* program_code: the names main calls
  target_functions, \* result of extract_target_functions_from_main
  todo,             \* what "for target_func in target_functions" has still to visit
  reported,         \* the error lines printed
  written,          \* the output files written, in order
  \* inject_and_test (test_container_one.py, test_container_one_mull.py)
  file,             \* the bytes of src/<program>.c on the host
  run_mutation_testing,   \* the argument of inject_and_test
  commands,         \* what inject_and_test did so far: writes of the modified code, commands run
  original_code, original_code_without_main,
  injectable_functions,   \* what "for func in injectable_functions" has still to visit
  results,
  ipc,
  \* the loop of test_harness.py
  stdin,            \* the lines input() has still to return
  consumed,         \* the lines input() has returned
  stdout,           \* the lines printed to stdout
  hpc,
  \* append_include_line_to_code
  code_without_main, include_line,
  applied,          \* the strings returned by the applications made so far
  \* generate_tests_for_one_coreutils_program (test_gpt5_generation.py)
  function_info,    \* what "for i, func in enumerate(function_info, 1)" has still to visit
  metadata,         \* the list injectable_functions built by the loop
  test_files,       \* the files tests_for_<name>.c written in the run
  metadata_file,    \* the content of <program>_injectable_functions.json
  reported_count,   \* N of "Generated tests for N functions"
  gpc,
  \* simple_programs_execute.py and run_build_execute_mutate_for_one_coreutils_program
  default_progs,    \* the list of the programs
  progs_todo,       \* what the loop over default_progs has still to visit, the current program first
  success, failed,
  enable_mutation_testing,
  temp_dirs,        \* the temporary directories on the disk, by the number of the program
  container,        \* the container build-coreutils runs
  steps,            \* what the current call did so far
  pending,          \* the exception in flight in the current call
  dpc

code == <<call_edges, func_shape, func_words, type_nodes, source_lines, file_decls,
         definitions>>
args == <<all_functions, target, max_depth>>
types == <<structs, enums, typedefs>>
batch == <<has_main, main_calls, target_functions, todo, reported, written>>
inject == <<file, original_code, original_code_without_main, injectable_functions,
           results, ipc, run_mutation_testing, commands>>
harness == <<stdin, consumed, stdout, hpc>>
append == <<code_without_main, include_line, applied>>
gen == <<function_info, metadata, test_files, metadata_file, reported_count, gpc>>
pipeline == <<default_progs, progs_todo, success, failed, enable_mutation_testing,
              temp_dirs, container, steps, pending, dpc>>
extras == <<gen, pipeline>>
drivers == <<inject, harness, append, extras>>
vars == <<code, args, needed_helpers, stack, pc, types, globals_list, macros,
          context_parts, run, prev_output, batch, drivers>>

(***************************************************************************)
(* Generic helpers.                                                        *)
(***************************************************************************)
Min(a, b) == IF a < b THEN a ELSE b
Range(s) == {s[i] : i \in 1..Len(s)}
\* The sequences of at most n elements of A.
StringsOver(A, n) == UNION {[1..k -> A] : k \in 0..n}
\* s[:n]  (PrefixUncapped: the whole list.)
PrefixUncapped(s, n) == s
Prefix(s, n) == SubSeq(s, 1, Min(n, Len(s)))

(***************************************************************************)
(* The text of a function, as the type regexes of extract_used_types see   *)
(* it: a sequence of whitespace-separated words.  The regexes scan the     *)
(* raw text, so a mention inside a comment counts like one in the code.    *)
(***************************************************************************)
FuncTexts ==
  { <<"int", "x">>,
    <<"struct", "Point", "p">>,
    <<"enum", "Color", "c">>,
    <<"size_t", "n", "//", "see", "struct", "Point">> }
PlainText == <<"int", "x">>

\* The struct_specifier, enum_specifier and type_definition nodes a unit may
\* hold.  child_tag is the text of the node's type_identifier child ("" when
\* it has none); words is the node's own text.
TypeNodeCatalogue ==
  << [kind |-> "struct_specifier", child_tag |-> "Point",
      words |-> <<"struct", "Point", "{", "int", "x", "}">>],
     [kind |-> "enum_specifier", child_tag |-> "Color",
      words |-> <<"enum", "Color", "{", "RED", "}">>],
     [kind |-> "struct_specifier", child_tag |-> "",
      words |-> <<"struct", "{", "size_t", "n", "}">>],
     [kind |-> "struct_specifier", child_tag |-> "",
      words |-> <<"struct", "{", "struct", "Point", "p", "}">>],
     [kind |-> "enum_specifier", child_tag |-> "",
      words |-> <<"enum", "{", "Color", "=", "1", "}">>],
     [kind |-> "type_definition", child_tag |-> "point_t",
      words |-> <<"typedef", "struct", "Point", "point_t">>],
     [kind |-> "type_definition", child_tag |-> "len_t",
      words |-> <<"typedef", "unsigned", "len_t">>],
     [kind |-> "struct_specifier", child_tag |-> "Point",
      words |-> <<"struct", "Point">>] >>

\* Lines of the file, as the macro scan sees them.
\* A line of the file, as the macro scan sees it (indent: leading blanks;
\* first: the first word after them), and a file-scope declaration node, as
\* the global scan sees it.
PlainDefine == [indent |-> 0, first |-> "#define"]
PlainDecl == [text |-> "int g;", paren |-> FALSE, semicolon |-> TRUE, brace |-> FALSE]

Numbered(n, x) == [i \in 1..n |-> [no |-> i, text |-> x]]
NumberedDecls(n, d) == [i \in 1..n |-> [no |-> i, decl |-> d]]

SmallShape == [newlines |-> 3, blank |-> 0]
Shapes == { [newlines |-> n, blank |-> b] :
              n \in (FullBodyLimit - LineSpread)..FullBodyLimit,
              b \in {0, MaxBlank} } \cup {SmallShape}

\* Sub-sequences of the catalogue (tree order is catalogue order).
RECURSIVE Pick(_, _)
Pick(S, i) ==
  IF i > Len(TypeNodeCatalogue) THEN <<>>
  ELSE (IF i \in S THEN <<TypeNodeCatalogue[i]>> ELSE <<>>) \o Pick(S, i + 1)

(***************************************************************************)
(* The call sites of a function: extract_calls over its re-parsed span.    *)
(***************************************************************************)
Calls(f) == {g \in Defined : <<f, g>> \in call_edges}
Called == {e[2] : e \in call_edges}

\* function_map = {f['name']: f for f in all_functions}
function_map == all_functions

(***************************************************************************)
(* needed_helpers: a Python dict keeps its keys in insertion order, and    *)
(* assigning to an existing key keeps the key's place.                     *)
(***************************************************************************)
HasKey(d, name) == \E i \in 1..Len(d) : d[i].name = name
DepthOf(d, name) == d[CHOOSE i \in 1..Len(d) : d[i].name = name].depth
Put(d, name, depth) ==
  IF HasKey(d, name)
  THEN [i \in 1..Len(d) |->
          IF d[i].name = name THEN [name |-> name, depth |-> depth] ELSE d[i]]
  ELSE Append(d, [name |-> name, depth |-> depth])
Keys(d) == {d[i].name : i \in 1..Len(d)}

(***************************************************************************)
(* find_dependencies(func_name, current_depth).                            *)
(***************************************************************************)
\* The two early returns: the body runs only when neither is taken.
\* (EntersOffByOne: the depth test one level late.)
EntersOffByOne(func_name, current_depth) ==
  ~(current_depth > max_depth + 1) /\ func_name \in function_map
Enters(func_name, current_depth) ==
  ~(current_depth > max_depth) /\ func_name \in function_map

\* A running call: the loop "for call_name in calls" has still to visit
\* the names of calls (a set: the loop may meet them in any order).
Frame(func_name, current_depth) ==
  [func_name |-> func_name, current_depth |-> current_depth,
   calls |-> Calls(func_name)]

\* "call_name in function_map and (call_name not in needed_helpers or
\*  needed_helpers[call_name]['depth'] > current_depth)"
\* (ShouldRecordFirstOnly: without the shallower-depth overwrite;
\*  ShouldRecordAlways: without the test on needed_helpers.)
ShouldRecordFirstOnly(call_name, current_depth) ==
  /\ call_name \in function_map
  /\ ~HasKey(needed_helpers, call_name)
ShouldRecordAlways(call_name, current_depth) ==
  call_name \in function_map
ShouldRecord(call_name, current_depth) ==
  /\ call_name \in function_map
  /\ \/ ~HasKey(needed_helpers, call_name)
     \/ DepthOf(needed_helpers, call_name) > current_depth

\* find_dependencies(target_function['name'], 1)
StartClosure ==
  /\ pc = "start"
  /\ pc' = "closure"
  /\ stack' = IF Enters(target, 1) THEN <<Frame(target, 1)>> ELSE <<>>
  /\ UNCHANGED <<code, args, needed_helpers, types, globals_list, macros,
                 context_parts, run, prev_output, batch, drivers>>

\* One iteration of the loop of the innermost call, with the recursive call
\* it makes.  A call that would exceed the interpreter's recursion limit
\* raises RecursionError, which nothing catches.
VisitCall ==
  /\ pc = "closure"
  /\ stack # <<>>
  /\ LET top == stack[Len(stack)] IN
     \E call_name \in top.calls :
       LET rest == [stack EXCEPT ![Len(stack)].calls = top.calls \ {call_name}] IN
       IF ShouldRecord(call_name, top.current_depth)
       THEN /\ needed_helpers' = Put(needed_helpers, call_name, top.current_depth)
            /\ IF Enters(call_name, top.current_depth + 1)
               THEN IF Len(stack) >= RecursionLimit
                    THEN pc' = "raised" /\ stack' = rest
                    ELSE /\ pc' = pc
                         /\ stack' = Append(rest, Frame(call_name, top.current_depth + 1))
               ELSE pc' = pc /\ stack' = rest
       ELSE /\ stack' = rest
            /\ UNCHANGED <<needed_helpers, pc>>
  /\ UNCHANGED <<code, args, types, globals_list, macros, context_parts,
                 run, prev_output, batch, drivers>>

\* The loop of the innermost call is over: the call returns.
ReturnFromFind ==
  /\ pc = "closure"
  /\ stack # <<>>
  /\ stack[Len(stack)].calls = {}
  /\ stack' = SubSeq(stack, 1, Len(stack) - 1)
  /\ UNCHANGED <<code, args, needed_helpers, pc, types, globals_list, macros,
                 context_parts, run, prev_output, batch, drivers>>

\* sorted(needed_helpers.items(), key=lambda x: x[1]['depth']): stable.
RECURSIVE InsertByDepth(_, _)
InsertByDepth(sorted, e) ==
  IF sorted = <<>> THEN <<e>>
  ELSE IF sorted[Len(sorted)].depth <= e.depth THEN Append(sorted, e)
  ELSE Append(InsertByDepth(SubSeq(sorted, 1, Len(sorted) - 1), e), sorted[Len(sorted)])
RECURSIVE SortByDepth(_)
SortByDepth(d) ==
  IF d = <<>> THEN <<>>
  ELSE InsertByDepth(SortByDepth(SubSeq(d, 1, Len(d) - 1)), d[Len(d)])
\* (sorted_helpersUnsorted: the items in insertion order.)
sorted_helpersUnsorted == needed_helpers
sorted_helpers == SortByDepth(needed_helpers)

(***************************************************************************)
(* extract_used_types.                                                     *)
(***************************************************************************)
\* \w+ matches a word made of letters, digits and underscores.
IsWord(w) == w \notin {"{", "}", "=", ";", "#"}
\* re.findall(r'struct\s+(\w+)', text), re.findall(r'enum\s+(\w+)', text)
KeywordRefs(keyword, words) ==
  {words[i + 1] : i \in {j \in 1..(Len(words) - 1) :
                           words[j] = keyword /\ IsWord(words[j + 1])}}
\* re.findall(r'\b(idx_t|size_t|...)\b', text)
TypedefRefs(words) == Range(words) \cap TypedefWhitelist
\* re.search(r'struct\s+(\w+)', code): the first match, "" when there is none
FirstRef(keyword, words) ==
  LET hits == {j \in 1..(Len(words) - 1) : words[j] = keyword /\ IsWord(words[j + 1])}
  IN IF hits = {} THEN ""
     ELSE words[(CHOOSE j \in hits : \A k \in hits : j <= k) + 1]
\* "ref in code"
Mentions(words, ref) == ref \in Range(words)

\* relevant_functions = [target_function] + the helpers' records
\* (relevant_functionsTargetOnly: without the helpers.)
relevant_functionsTargetOnly == {target}
relevant_functions == {target} \cup Keys(needed_helpers)

FuncRefs(f) ==
  KeywordRefs("struct", func_words[f]) \cup KeywordRefs("enum", func_words[f])
    \cup TypedefRefs(func_words[f])
referenced_types == UNION {FuncRefs(f) : f \in relevant_functions}

AppendNew(list, text) == IF text \in Range(list) THEN list ELSE Append(list, text)

\* The name the walk resolves for a struct / enum node: the type_identifier
\* child, else the first regex match in the node's own text.
ResolvedName(node, keyword) ==
  IF node.child_tag # "" THEN node.child_tag ELSE FirstRef(keyword, node.words)

\* The three lists after the walk has visited one more node.
VisitTypeNode(acc, node) ==
  IF node.kind = "struct_specifier"
  THEN LET struct_name == ResolvedName(node, "struct") IN
       IF struct_name # "" /\ struct_name \in referenced_types
       THEN [acc EXCEPT !.structs = AppendNew(acc.structs, node.words)]
       ELSE IF struct_name = "" /\ \E ref \in referenced_types : Mentions(node.words, ref)
       THEN [acc EXCEPT !.structs = AppendNew(acc.structs, node.words)]
       ELSE acc
  ELSE IF node.kind = "enum_specifier"
  THEN LET enum_name == ResolvedName(node, "enum") IN
       IF enum_name # "" /\ enum_name \in referenced_types
       THEN [acc EXCEPT !.enums = AppendNew(acc.enums, node.words)]
       ELSE acc
  ELSE IF node.kind = "type_definition"
  THEN IF \E ref_type \in referenced_types : Mentions(node.words, ref_type)
       THEN [acc EXCEPT !.typedefs = AppendNew(acc.typedefs, node.words)]
       ELSE acc
  ELSE acc

RECURSIVE extract_specific_types(_)
extract_specific_types(nodes) ==
  IF nodes = <<>> THEN [structs |-> <<>>, enums |-> <<>>, typedefs |-> <<>>]
  ELSE VisitTypeNode(extract_specific_types(SubSeq(nodes, 1, Len(nodes) - 1)),
                     nodes[Len(nodes)])

\* The closure is over: sort the helpers, then extract_used_types(...).
ExtractUsedTypes ==
  /\ pc = "closure"
  /\ stack = <<>>
  /\ LET r == extract_specific_types(type_nodes) IN
       /\ structs' = r.structs
       /\ enums' = r.enums
       /\ typedefs' = r.typedefs
  /\ pc' = "globals"
  /\ UNCHANGED <<code, args, needed_helpers, stack, globals_list, macros,
                 context_parts, run, prev_output, batch, drivers>>

(***************************************************************************)
(* 2.3 extract_globals and 2.4 the macro scan.                             *)
(***************************************************************************)
\* not ('(' in code and code.rstrip().endswith(';') and '{' not in code)
IsGlobal(d) == ~(d.decl.paren /\ d.decl.semicolon /\ ~d.decl.brace)
\* line.strip().startswith('#define')
\* (IsDefineReferenced: only the #define lines whose name a function of the
\*  closure, or the target, mentions.)
IsDefineReferenced(l) ==
  /\ l.text.first = "#define"
  /\ \E f \in {target} \cup Keys(needed_helpers) : l.text.name \in Range(func_words[f])
IsDefine(l) == l.text.first = "#define"

ExtractGlobalsAndMacros ==
  /\ pc = "globals"
  /\ globals_list' = SelectSeq(file_decls, IsGlobal)
  /\ macros' = SelectSeq(source_lines, IsDefine)
  /\ pc' = "assemble"
  /\ UNCHANGED <<code, args, needed_helpers, stack, types, context_parts,
                 run, prev_output, batch, drivers>>

(***************************************************************************)
(* 2.5 the assembly of context_parts.                                      *)
(***************************************************************************)
\* program_code[f['start_byte']:f['end_byte']]: the whole span of f
FuncCode(f) == [name |-> f, words |-> func_words[f], shape |-> func_shape[f]]
\* text.count('\n')
CountNewlines(f) == func_shape[f].newlines
\* The lines of the span that are not empty.
NonEmptyLines(f) == func_shape[f].newlines + 1 - func_shape[f].blank

Part(sec, kind, name, depth, lines, body) ==
  [sec |-> sec, kind |-> kind, name |-> name, depth |-> depth, lines |-> lines,
   body |-> body]
Banner(sec) == Part(sec, "banner", "", 0, 0, <<>>)

DeclParts(sec, list) == [i \in 1..Len(list) |-> Part(sec, "decl", "", 0, 0, list[i])]

TypeSection ==
  IF structs # <<>> \/ enums # <<>> \/ typedefs # <<>>
  THEN <<Banner("types")>>
       \o (IF structs # <<>> THEN <<Banner("structs")>> \o DeclParts("structs", structs)
           ELSE <<>>)
       \o (IF enums # <<>> THEN <<Banner("enums")>> \o DeclParts("enums", enums)
           ELSE <<>>)
       \o (IF typedefs # <<>> THEN <<Banner("typedefs")>> \o DeclParts("typedefs", typedefs)
           ELSE <<>>)
  ELSE <<>>

MacroSection ==
  IF macros # <<>>
  THEN <<Banner("macros"), Part("macros", "lines", "", 0, 0, Prefix(macros, MacroCap))>>
  ELSE <<>>

GlobalSection ==
  IF globals_list # <<>>
  THEN <<Banner("globals"), Part("globals", "lines", "", 0, 0, Prefix(globals_list, GlobalCap))>>
  ELSE <<>>

\* "if lines < 50 or depth == 1"
\* (EmitFullSmallOnly: without the depth test.)
EmitFullSmallOnly(lines, depth) == lines < FullBodyLimit
EmitFull(lines, depth) == lines < FullBodyLimit \/ depth = 1

HelperParts(h) ==
  LET lines == CountNewlines(h.name) IN
  IF EmitFull(lines, h.depth)
  THEN <<Part("helpers", "comment", h.name, h.depth, lines, <<>>),
         Part("helpers", "code", h.name, h.depth, lines, <<FuncCode(h.name)>>)>>
  ELSE <<Part("helpers", "stub", h.name, h.depth, lines, <<>>)>>

RECURSIVE HelperLoop(_)
HelperLoop(hs) ==
  IF hs = <<>> THEN <<>>
  ELSE HelperLoop(SubSeq(hs, 1, Len(hs) - 1)) \o HelperParts(hs[Len(hs)])

HelperSection ==
  IF sorted_helpers # <<>>
  THEN <<Banner("helpers"),
         Part("helpers", "count", target, 0, Len(sorted_helpers), <<>>)>>
       \o HelperLoop(sorted_helpers)
  ELSE <<>>

\* The target section.  (TargetSectionAsStub: the signature instead of the span.)
TargetSectionAsStub ==
  <<Banner("target"),
    Part("target", "comment", target, 0, CountNewlines(target), <<>>),
    Part("target", "stub", target, 0, CountNewlines(target), <<>>)>>
TargetSection ==
  <<Banner("target"),
    Part("target", "comment", target, 0, CountNewlines(target), <<>>),
    Part("target", "code", target, 0, CountNewlines(target), <<FuncCode(target)>>)>>

\* context_parts, in the order of the appends.  (AllPartsGlobalsFirst: the
\* global section appended before the macro section.)
AllPartsGlobalsFirst ==
  <<Part("header", "banner", target, 0, 0, <<>>)>>
    \o TypeSection \o GlobalSection \o MacroSection \o HelperSection \o TargetSection
AllParts ==
  <<Part("header", "banner", target, 0, 0, <<>>)>>
    \o TypeSection \o MacroSection \o GlobalSection \o HelperSection \o TargetSection

Assemble ==
  /\ pc = "assemble"
  /\ context_parts' = AllParts
  /\ pc' = "done"
  /\ UNCHANGED <<code, args, needed_helpers, stack, types, globals_list, macros,
                 run, prev_output, batch, drivers>>

\* A second run of the engine on the same program_code and arguments.
Rerun ==
  /\ pc = "done"
  /\ run = 1
  /\ run' = 2
  /\ prev_output' = context_parts
  /\ needed_helpers' = <<>>
  /\ structs' = <<>> /\ enums' = <<>> /\ typedefs' = <<>>
  /\ globals_list' = <<>> /\ macros' = <<>>
  /\ context_parts' = <<>>
  /\ pc' = "start"
  /\ UNCHANGED <<code, args, stack, batch, drivers>>

(***************************************************************************)
(* Initial states: the inputs of one call of reconstruct_minimal_context.  *)
(***************************************************************************)
\* The parts of the state that belong to the other programs of the repository:
\* a run of one program leaves them as they are.
NoBatch ==
  /\ has_main = FALSE /\ main_calls = {}
  /\ target_functions = <<>> /\ todo = <<>>
  /\ reported = <<>> /\ written = <<>>
NoInject ==
  /\ file = <<>> /\ original_code = <<>> /\ original_code_without_main = <<>>
  /\ injectable_functions = <<>> /\ results = <<>>
  /\ run_mutation_testing = FALSE /\ commands = <<>>
  /\ ipc = "idle"
NoHarness ==
  /\ stdin = <<>> /\ consumed = <<>> /\ stdout = <<>>
  /\ hpc = "idle"
NoAppend ==
  /\ code_without_main = <<>> /\ include_line = <<>> /\ applied = <<>>
NoGen ==
  /\ function_info = <<>> /\ metadata = <<>> /\ test_files = {}
  /\ metadata_file = <<>> /\ reported_count = 0
  /\ gpc = "idle"
NoPipeline ==
  /\ default_progs = <<>> /\ progs_todo = <<>>
  /\ success = 0 /\ failed = 0
  /\ enable_mutation_testing = FALSE
  /\ temp_dirs = {} /\ container = FALSE
  /\ steps = <<>> /\ pending = ""
  /\ dpc = "idle"
NoExtras == NoGen /\ NoPipeline
NoDrivers == NoInject /\ NoHarness /\ NoAppend /\ NoExtras

Fresh ==
  /\ needed_helpers = <<>>
  /\ stack = <<>>
  /\ pc = "start"
  /\ structs = <<>> /\ enums = <<>> /\ typedefs = <<>>
  /\ globals_list = <<>> /\ macros = <<>>
  /\ context_parts = <<>>
  /\ run = 1
  /\ prev_output = <<>>

EdgeSets(n) == {E \in SUBSET (Defined \X Defined) : Cardinality(E) <= n}

\* The functions some call path leads to from t, t included.
RECURSIVE ReachedIn(_, _, _)
ReachedIn(E, R, n) ==
  IF n = 0 THEN R
  ELSE ReachedIn(E, R \cup {e[2] : e \in {x \in E : x[1] \in R}}, n - 1)
Reached(E, t) == ReachedIn(E, {t}, Cardinality(Defined))
\* Call graphs all of whose call sites lie in functions reached from t: the
\* engine reads the text of no other function.
ReachedEdgeSets(n, t) == {E \in EdgeSets(n) : \A e \in E : e[1] \in Reached(E, t)}

PlainShapes == func_shape = [f \in Defined |-> SmallShape]
PlainWords == func_words = [f \in Defined |-> PlainText]
\* The function_definition nodes of a unit, given the names in the order the
\* traversal meets them: a node is told from the others by its start_byte.
DefinitionsOf(names) == [i \in 1..Len(names) |-> [name |-> names[i], start_byte |-> i]]
\* A unit that defines every name once.
PlainDefinitions == definitions = DefinitionsOf(<<"foo", "bar", "baz", "xmalloc">>)
PlainLists ==
  /\ source_lines = Numbered(1, PlainDefine)
  /\ file_decls = NumberedDecls(1, PlainDecl)
AnyDepth == (0..MaxDepth) \cup {DefaultMaxDepth}

\* Closure inputs: every call graph of at most MaxEdges edges, any target,
\* an index with or without the unit's own definition of a library name,
\* plain function texts.
Init ==
  /\ PlainDefinitions
  /\ call_edges \in EdgeSets(MaxEdges)
  /\ all_functions \in {Defined, Defined \ stdlib_functions}
  /\ target \in Defined
  /\ max_depth \in AnyDepth
  /\ PlainShapes /\ PlainWords /\ PlainLists
  /\ type_nodes = <<>>
  /\ Fresh
  /\ NoBatch /\ NoDrivers

\* The same, over the call graphs of at most MaxReachEdges edges whose call
\* sites the engine reads.
InitReach ==
  /\ PlainDefinitions
  /\ target \in Defined
  /\ call_edges \in ReachedEdgeSets(MaxReachEdges, target)
  /\ all_functions \in {Defined, Defined \ stdlib_functions}
  /\ max_depth \in AnyDepth
  /\ PlainShapes /\ PlainWords /\ PlainLists
  /\ type_nodes = <<>>
  /\ Fresh
  /\ NoBatch /\ NoDrivers

\* Assembly inputs: the sizes of the target and of the functions that are
\* called vary.
InitShapes ==
  /\ PlainDefinitions
  /\ target \in Defined
  /\ call_edges \in ReachedEdgeSets(MaxAsmEdges, target)
  /\ all_functions = Defined
  /\ max_depth = DefaultMaxDepth
  /\ func_shape \in {sh \in [Defined -> Shapes] :
                       \A f \in Defined \ (Called \cup {target}) : sh[f] = SmallShape}
  /\ PlainWords /\ PlainLists
  /\ type_nodes = <<>>
  /\ Fresh
  /\ NoBatch /\ NoDrivers

\* Type inputs: the texts of the functions the engine reads vary, and so do
\* the type nodes of the unit (up to MaxTypeNodes of the catalogue, or all of
\* it) and the presence of #define lines and file-scope declarations.
InitTypes ==
  /\ PlainDefinitions
  /\ target \in Defined
  /\ call_edges \in ReachedEdgeSets(MaxTypeEdges, target)
  /\ all_functions = Defined
  /\ max_depth = DefaultMaxDepth
  /\ PlainShapes
  /\ func_words \in {w \in [Defined -> FuncTexts] :
                       \A f \in Defined \ Reached(call_edges, target) : w[f] = PlainText}
  /\ type_nodes \in {Pick(S, 1) : S \in {T \in SUBSET (1..Len(TypeNodeCatalogue)) :
                                           Cardinality(T) <= MaxTypeNodes}}
                    \cup {TypeNodeCatalogue}
  /\ source_lines \in {<<>>, Numbered(1, PlainDefine)}
  /\ file_decls \in {<<>>, NumberedDecls(1, PlainDecl)}
  /\ Fresh
  /\ NoBatch /\ NoDrivers

Next ==
  \/ StartClosure
  \/ VisitCall
  \/ ReturnFromFind
  \/ ExtractUsedTypes
  \/ ExtractGlobalsAndMacros
  \/ Assemble

Spec == Init /\ [][Next]_vars
ShapeSpec == InitShapes /\ [][Next]_vars
TypeSpec == InitTypes /\ [][Next]_vars

\* The engine runs to the end of the call: it is single-threaded and
\* synchronous, nothing suspends it.
FairSpec == InitReach /\ [][Next]_vars /\ WF_vars(Next)

\* Two runs on the same input.
NextRerun == Next \/ Rerun
RerunSpec == InitReach /\ [][NextRerun]_vars

\* Depth-bound and ordering inputs: the call graphs of at most MaxChainEdges
\* edges whose call sites the engine reads (a chain of three calls among them).
InitChains ==
  /\ PlainDefinitions
  /\ target \in Defined
  /\ call_edges \in ReachedEdgeSets(MaxChainEdges, target)
  /\ all_functions \in {Defined, Defined \ stdlib_functions}
  /\ max_depth \in AnyDepth
  /\ PlainShapes /\ PlainWords /\ PlainLists
  /\ type_nodes = <<>>
  /\ NoBatch /\ NoDrivers
  /\ Fresh

ChainSpec == InitChains /\ [][Next]_vars

(***************************************************************************)
(* Units with many #define lines and file-scope declarations.              *)
(***************************************************************************)
\* A function text that mentions a macro and a global variable by name.
MacroUserText == <<"return", "BUFSIZE", "+", "counter">>

\* Line i of a file in which, when gap > 0, every gap-th line is not a
\* #define line (an #include line or a declaration), and the others are
\* #define lines, indented or not.
LineAt(i, gap) ==
  IF gap > 0 /\ i % gap = 0
  THEN [indent |-> 0, first |-> IF i % (2 * gap) = 0 THEN "#include" ELSE "int",
        name |-> "v"]
  ELSE [indent |-> i % 2, first |-> "#define",
        name |-> IF i = 1 THEN "BUFSIZE" ELSE "OTHER"]

\* 'declaration' child i of the translation unit: when gap > 0 every gap-th
\* one is a function prototype; of the others, every third is an array with a
\* brace initialiser that holds a call, the rest are plain variables.
DeclAt(i, gap) ==
  IF gap > 0 /\ i % gap = 0
  THEN [text |-> "int f(void);", paren |-> TRUE, semicolon |-> TRUE, brace |-> FALSE,
        name |-> "f"]
  ELSE IF i % 3 = 0
  THEN [text |-> "int a[] = {f(1)};", paren |-> TRUE, semicolon |-> TRUE, brace |-> TRUE,
        name |-> "a"]
  ELSE [text |-> "int g;", paren |-> FALSE, semicolon |-> TRUE, brace |-> FALSE,
        name |-> IF i = 1 THEN "counter" ELSE "unused"]

LinesOfFile(n, gap) == [i \in 1..n |-> [no |-> i, text |-> LineAt(i, gap)]]
DeclsOfFile(n, gap) == [i \in 1..n |-> [no |-> i, decl |-> DeclAt(i, gap)]]

\* Lengths around no element, one cap and two caps.
ListSize(cap, mult, d) == IF mult = 0 THEN (IF d > 0 THEN d ELSE 0) ELSE mult * cap + d

\* Macro and global inputs: the target calls one other function at most; the
\* lists are short, about as long as their cap
\* or about twice as long, with or without lines that do not match; the
\* texts of the functions the engine reads mention the first macro and the
\* first global, or mention none.
InitLists ==
  /\ PlainDefinitions
  /\ target \in Defined
  /\ call_edges \in {{}} \cup {{<<target, h>>} : h \in Defined \ {target}}
  /\ all_functions = Defined
  /\ max_depth = DefaultMaxDepth
  /\ PlainShapes
  /\ func_words \in {w \in [Defined -> {PlainText, MacroUserText}] :
                       \A f \in Defined \ Reached(call_edges, target) : w[f] = PlainText}
  /\ type_nodes = <<>>
  /\ \E mult \in 0..2, d \in (0 - ListSpread)..ListSpread, gap \in {0, 2} :
       /\ source_lines = LinesOfFile(ListSize(MacroCap, mult, d), gap)
       /\ file_decls = DeclsOfFile(ListSize(GlobalCap, mult, d), gap)
  /\ NoBatch /\ NoDrivers
  /\ Fresh

ListSpec == InitLists /\ [][Next]_vars

(***************************************************************************)
(* The batch driver: extract_target_functions_from_main, then one call of  *)
(* reconstruct_minimal_context per target function.                        *)
(***************************************************************************)
\* A name main may call that the unit does not define and the exclusion set
\* does not hold.
Undefined == {"puts"}

\* target_calls = function_calls - stdlib_functions
target_calls == main_calls \ stdlib_functions
\* find_all_functions: a record for each function definition whose name is
\* in target_calls, in the order of the traversal.
InTargetCalls(f) == f.name \in target_calls
all_program_functions == SelectSeq(definitions, InTargetCalls)

\* A dict of function records keyed by name, as the sequence of its values in
\* insertion order: assigning to a key it holds replaces the value in place.
HasName(m, name) == \E i \in 1..Len(m) : m[i].name = name
Lookup(m, name) == m[CHOOSE i \in 1..Len(m) : m[i].name = name]
\* (PutRecordKeepFirst: a key the dict holds keeps its value.)
PutRecordKeepFirst(m, f) == IF HasName(m, f.name) THEN m ELSE Append(m, f)
PutRecord(m, f) ==
  IF HasName(m, f.name)
  THEN [i \in 1..Len(m) |-> IF m[i].name = f.name THEN f ELSE m[i]]
  ELSE Append(m, f)
\* {f['name']: f for f in functions}
RECURSIVE MapByName(_, _)
MapByName(m, functions) ==
  IF functions = <<>> THEN m
  ELSE MapByName(PutRecord(m, Head(functions)), Tail(functions))
func_map == MapByName(<<>>, all_program_functions)
\* "for call_name in target_calls: if call_name in func_map: append": a set is
\* iterated in any order.
Orderings(S) ==
  {q \in [1..Cardinality(S) -> S] : \A i, j \in 1..Cardinality(S) : i # j => q[i] # q[j]}

\* print("ERROR: Could not find main() function")
\* (NoMainReportSilent: nothing is printed.)
NoMainReportSilent == <<>>
NoMainReport == <<"ERROR: Could not find main() function">>

\* target_functions = extract_target_functions_from_main(program_code)
ExtractTargets ==
  /\ pc = "batch_start"
  /\ IF ~has_main
     THEN /\ reported' = reported \o NoMainReport
          /\ target_functions' = <<>>
     ELSE /\ target_functions' \in
               { [i \in 1..Len(q) |-> Lookup(func_map, q[i])] :
                   q \in Orderings({call_name \in target_calls : HasName(func_map, call_name)}) }
          /\ UNCHANGED reported
  /\ todo' = target_functions'
  /\ pc' = "batch_loop"
  /\ UNCHANGED <<code, args, needed_helpers, stack, types, globals_list, macros,
                 context_parts, run, prev_output, has_main, main_calls, written,
                 drivers>>

\* "for target_func in target_functions": the next call of
\* reconstruct_minimal_context(program_code, target_func, target_functions, max_depth=10)
NextTarget ==
  /\ pc = "batch_loop"
  /\ todo # <<>>
  /\ target' = Head(todo).name
  /\ todo' = Tail(todo)
  /\ all_functions' = {f.name : f \in Range(target_functions)}
  /\ max_depth' = BatchMaxDepth
  /\ needed_helpers' = <<>>
  /\ stack' = <<>>
  /\ structs' = <<>> /\ enums' = <<>> /\ typedefs' = <<>>
  /\ globals_list' = <<>> /\ macros' = <<>>
  /\ context_parts' = <<>>
  /\ pc' = "start"
  /\ UNCHANGED <<code, run, prev_output, has_main, main_calls, target_functions,
                 reported, written, drivers>>

\* The text returned is written to reconstructed_<name>.c.
WriteOutput ==
  /\ pc = "done"
  /\ written' = Append(written, [output_file |-> target, context |-> context_parts])
  /\ pc' = "batch_loop"
  /\ UNCHANGED <<code, args, needed_helpers, stack, types, globals_list, macros,
                 context_parts, run, prev_output, has_main, main_calls,
                 target_functions, todo, reported, drivers>>

\* The loop is over: the script ends.
BatchExit ==
  /\ pc = "batch_loop"
  /\ todo = <<>>
  /\ pc' = "exit"
  /\ UNCHANGED <<code, args, needed_helpers, stack, types, globals_list, macros,
                 context_parts, run, prev_output, batch, drivers>>

\* Batch inputs: a unit with or without main, main calling any of the
\* functions the unit defines and a function it does not define, every call
\* graph of at most MaxBatchEdges edges among the defined functions.
InitBatch ==
  /\ PlainDefinitions
  /\ has_main \in BOOLEAN
  /\ main_calls \in IF has_main THEN SUBSET (Defined \cup Undefined) ELSE {{}}
  /\ call_edges \in EdgeSets(MaxBatchEdges)
  /\ PlainShapes /\ PlainWords /\ PlainLists
  /\ type_nodes = <<>>
  /\ all_functions = {} /\ target = "" /\ max_depth = BatchMaxDepth
  /\ needed_helpers = <<>> /\ stack = <<>>
  /\ structs = <<>> /\ enums = <<>> /\ typedefs = <<>>
  /\ globals_list = <<>> /\ macros = <<>>
  /\ context_parts = <<>>
  /\ run = 1 /\ prev_output = <<>>
  /\ pc = "batch_start"
  /\ target_functions = <<>> /\ todo = <<>>
  /\ reported = <<>> /\ written = <<>>
  /\ NoDrivers

BatchNext ==
  \/ ExtractTargets
  \/ NextTarget
  \/ Next
  \/ WriteOutput
  \/ BatchExit

BatchSpec == InitBatch /\ [][BatchNext]_vars

\* Units that define a name more than once: up to MaxDefinitions definitions
\* of the names foo, bar and baz in any order (two definitions of a name hold
\* the same call sites), main calling any of the defined names, foo calling
\* bar or not, bar calling foo back or not.
DupCallGraphs == { {}, {<<"foo", "bar">>}, {<<"foo", "bar">>, <<"bar", "foo">>} }
InitDup ==
  /\ definitions \in {DefinitionsOf(q) : q \in StringsOver(Defined \ stdlib_functions, MaxDefinitions)}
  /\ has_main = TRUE
  /\ main_calls \in SUBSET Defined
  /\ call_edges \in DupCallGraphs
  /\ PlainShapes /\ PlainWords /\ PlainLists
  /\ type_nodes = <<>>
  /\ all_functions = {} /\ target = "" /\ max_depth = BatchMaxDepth
  /\ needed_helpers = <<>> /\ stack = <<>>
  /\ structs = <<>> /\ enums = <<>> /\ typedefs = <<>>
  /\ globals_list = <<>> /\ macros = <<>>
  /\ context_parts = <<>>
  /\ run = 1 /\ prev_output = <<>>
  /\ pc = "batch_start"
  /\ target_functions = <<>> /\ todo = <<>>
  /\ reported = <<>> /\ written = <<>>
  /\ NoDrivers

DupSpec == InitDup /\ [][BatchNext]_vars

(***************************************************************************)
(* append_include_line_to_code.  A string is the sequence of its           *)
(* characters; LF and CR are the line terminators among them.              *)
(***************************************************************************)
LF == "\n"
CR == "\r"
TextChars == {"i", "x"}
Chars == TextChars \cup {LF, CR}


\* str.splitlines(): a line ends at LF, at CR or at CR LF, the terminator is
\* dropped, and a terminator at the very end opens no further line.
RECURSIVE SplitFrom(_, _, _)
SplitFrom(s, i, cur) ==
  IF i > Len(s) THEN (IF cur = <<>> THEN <<>> ELSE <<cur>>)
  ELSE IF s[i] = CR /\ i < Len(s) /\ s[i + 1] = LF
  THEN <<cur>> \o SplitFrom(s, i + 2, <<>>)
  ELSE IF s[i] \in {LF, CR} THEN <<cur>> \o SplitFrom(s, i + 1, <<>>)
  ELSE SplitFrom(s, i + 1, Append(cur, s[i]))
splitlines(s) == SplitFrom(s, 1, <<>>)

\* '\n'.join(lines)
RECURSIVE Join(_)
Join(lines) ==
  IF lines = <<>> THEN <<>>
  ELSE IF Len(lines) = 1 THEN lines[1]
  ELSE lines[1] \o <<LF>> \o Join(Tail(lines))

\* (append_include_line_to_codeAlways: without the test "include_line in lines".)
append_include_line_to_codeAlways(code_text, include) ==
  Join(Append(splitlines(code_text), include)) \o <<LF>>
append_include_line_to_code(code_text, include) ==
  LET lines == splitlines(code_text) IN
  IF include \in Range(lines)
  THEN Join(lines) \o <<LF>>
  ELSE Join(Append(lines, include)) \o <<LF>>

\* The function is applied to code_without_main, then to its own result.
ApplyAppend ==
  /\ Len(applied) < 2
  /\ applied' = Append(applied,
       append_include_line_to_code(
         IF applied = <<>> THEN code_without_main ELSE applied[Len(applied)],
         include_line))
  /\ UNCHANGED <<code, args, needed_helpers, stack, pc, types, globals_list, macros,
                 context_parts, run, prev_output, batch, inject, harness, extras,
                 code_without_main, include_line>>

\* The engine and the batch driver, not run.
NoEngine ==
  /\ PlainDefinitions
  /\ call_edges = {}
  /\ PlainShapes /\ PlainWords
  /\ type_nodes = <<>> /\ source_lines = <<>> /\ file_decls = <<>>
  /\ all_functions = {} /\ target = "" /\ max_depth = DefaultMaxDepth
  /\ Fresh
  /\ NoBatch

\* Inputs: any text of at most MaxCodeLen characters, line terminators of
\* both kinds included, and an include line (one line: no terminator in it)
\* of at most MaxIncludeLen characters.
InitAppend ==
  /\ code_without_main \in StringsOver(Chars, MaxCodeLen)
  /\ include_line \in StringsOver(TextChars, MaxIncludeLen)
  /\ applied = <<>>
  /\ NoEngine /\ NoInject /\ NoHarness /\ NoExtras

AppendNext == ApplyAppend
AppendSpec == InitAppend /\ [][AppendNext]_vars

(***************************************************************************)
(* inject_and_test.  The bytes of src/<program>.c are a string in which    *)
(* one character stands for the whole span of the main function.           *)
(***************************************************************************)
MainSpan == "m"

\* Source files: LF line ends with main; CR LF line ends with main at the end
\* and no final terminator; a file that already holds the include line; a
\* file without main.
SourceFiles ==
  { <<"x", LF, MainSpan, LF>>,
    <<"x", CR, LF, MainSpan>>,
    <<"i", LF, MainSpan, LF>>,
    <<"x", LF>> }

\* The entries of the JSON list: objects with an include_line (two different
\* lines), an object without one (include_line is None or empty), and an
\* element that is not an object (func.get raises).
Injectables ==
  { [is_dict |-> TRUE, include_line |-> <<"i">>],
    [is_dict |-> TRUE, include_line |-> <<"j">>],
    [is_dict |-> TRUE, include_line |-> <<>>],
    [is_dict |-> FALSE, include_line |-> <<>>] }

\* open(path, 'r', encoding='utf-8').read(): text mode translates CR LF and CR
\* to LF.
RECURSIVE ReadText(_)
ReadText(bytes) ==
  IF bytes = <<>> THEN <<>>
  ELSE IF bytes[1] = CR /\ Len(bytes) > 1 /\ bytes[2] = LF
  THEN <<LF>> \o ReadText(SubSeq(bytes, 3, Len(bytes)))
  ELSE IF bytes[1] = CR THEN <<LF>> \o ReadText(Tail(bytes))
  ELSE <<bytes[1]>> \o ReadText(Tail(bytes))

\* remove_main_with_treesitter: the bytes without the span of the first main
\* function found, the bytes themselves when there is none.
RECURSIVE remove_main_with_treesitter(_)
remove_main_with_treesitter(bytes) ==
  IF bytes = <<>> THEN <<>>
  ELSE IF bytes[1] = MainSpan THEN Tail(bytes)
  ELSE <<bytes[1]>> \o remove_main_with_treesitter(Tail(bytes))

\* write_host_file(path, content): the file holds content (text mode on the
\* host writes LF as LF).
write_host_file(content) == content

\* What the restoring writes put back.
\* (RestoreContentWithoutMain: the text the loop works on.)
RestoreContentWithoutMain == original_code_without_main
RestoreContent == original_code

\* modified_code = append_include_line_to_code(original_code_without_main, include_line)
\* (modified_codeFromFile: the include line is appended to what the file holds.)
modified_codeFromFile(include) == append_include_line_to_code(ReadText(file), include)
modified_code(include) == append_include_line_to_code(original_code_without_main, include)

\* A command run in the container ends with an exit code and may have
\* printed FAIL, or it is still running when the timeout expires (exit_code
\* then means nothing).
BuildProcesses ==
  { [timed_out |-> FALSE, exit_code |-> c, fail_in_stdout |-> FALSE] : c \in {0, 1} }
  \cup { [timed_out |-> TRUE, exit_code |-> 0, fail_in_stdout |-> FALSE] }
TestProcesses ==
  { [timed_out |-> FALSE, exit_code |-> c, fail_in_stdout |-> f] : c \in {0, 1}, f \in BOOLEAN }
  \cup { [timed_out |-> TRUE, exit_code |-> 0, fail_in_stdout |-> FALSE] }

\* run_in_container: the CompletedProcess returned; on TimeoutExpired one with
\* returncode 1 and an empty stdout.
\* (run_in_containerNoTimeout: the timeout is not told from a normal end.)
run_in_containerNoTimeout(p) == [returncode |-> p.exit_code, fail_in_stdout |-> p.fail_in_stdout]
run_in_container(p) ==
  IF p.timed_out
  THEN [returncode |-> TimeoutReturnCode, fail_in_stdout |-> FALSE]
  ELSE [returncode |-> p.exit_code, fail_in_stdout |-> p.fail_in_stdout]

\* build_program: built iff r.returncode == 0
Built(r) == r.returncode = 0
\* run_tests: passed = (r.returncode == 0) and ("FAIL" not in (r.stdout or ""))
\* (PassedExitCodeOnly: without the test of stdout.)
PassedExitCodeOnly(r) == r.returncode = 0
Passed(r) == r.returncode = 0 /\ ~r.fail_in_stdout

\* An entry of the record of what the loop did to the container and the file.
Event(command, p) ==
  [command |-> command, timed_out |-> p.timed_out, exit_code |-> p.exit_code,
   fail_in_stdout |-> p.fail_in_stdout]
Done == [timed_out |-> FALSE, exit_code |-> 0, fail_in_stdout |-> FALSE]

\* "backup original": both readings of the file.
ReadOriginal ==
  /\ ipc = "start"
  /\ original_code' = ReadText(file)
  /\ original_code_without_main' = remove_main_with_treesitter(file)
  /\ results' = <<>>
  /\ ipc' = "loop"
  /\ UNCHANGED <<code, args, needed_helpers, stack, pc, types, globals_list, macros,
                 context_parts, run, prev_output, batch, harness, append, extras,
                 file, injectable_functions, run_mutation_testing, commands>>

\* The head of the loop body for the next entry: an entry that is not an
\* object raises, one without include_line is skipped, and for the others
\* the modified code is written over the source file (the write may fail, and
\* then leaves the file as it was).
NextInjectable ==
  /\ ipc = "loop"
  /\ injectable_functions # <<>>
  /\ LET func == Head(injectable_functions) IN
     IF ~func.is_dict
     THEN ipc' = "finally_raised" /\ UNCHANGED <<file, injectable_functions, commands>>
     ELSE IF func.include_line = <<>>
     THEN /\ injectable_functions' = Tail(injectable_functions)
          /\ UNCHANGED <<file, ipc, commands>>
     ELSE \/ /\ file' = write_host_file(modified_code(func.include_line))
             /\ commands' = Append(commands, Event("write", Done))
             /\ ipc' = "build"
             /\ UNCHANGED injectable_functions
          \/ /\ ipc' = "finally_raised"
             /\ UNCHANGED <<file, injectable_functions, commands>>
  /\ UNCHANGED <<code, args, needed_helpers, stack, pc, types, globals_list, macros,
                 context_parts, run, prev_output, batch, harness, append, extras,
                 original_code, original_code_without_main, results,
                 run_mutation_testing>>

\* build_program returns: built or not; or the call raises.
BuildProgram ==
  /\ ipc = "build"
  /\ \/ \E p \in BuildProcesses :
          /\ commands' = Append(commands, Event("make", p))
          /\ IF Built(run_in_container(p))
             THEN /\ ipc' = "test"
                  /\ UNCHANGED <<file, injectable_functions, results>>
             ELSE /\ results' = Append(results, [build |-> FALSE, test |-> FALSE, mull |-> FALSE])
                  /\ file' = write_host_file(RestoreContent)
                  /\ injectable_functions' = Tail(injectable_functions)
                  /\ ipc' = "loop"
     \/ /\ ipc' = "finally_raised"
        /\ UNCHANGED <<file, injectable_functions, results, commands>>
  /\ UNCHANGED <<code, args, needed_helpers, stack, pc, types, globals_list, macros,
                 context_parts, run, prev_output, batch, harness, append, extras,
                 original_code, original_code_without_main, run_mutation_testing>>

\* run_tests returns: when the tests passed and mutation testing is on, Mull
\* runs next; otherwise the result is recorded and the original is restored.
\* Or run_tests raises.
RunTests ==
  /\ ipc = "test"
  /\ \/ \E p \in TestProcesses :
          LET passed == Passed(run_in_container(p)) IN
          /\ commands' = Append(commands, Event("run", p))
          /\ IF passed /\ run_mutation_testing
             THEN /\ ipc' = "mull"
                  /\ UNCHANGED <<file, injectable_functions, results>>
             ELSE /\ results' = Append(results, [build |-> TRUE, test |-> passed, mull |-> FALSE])
                  /\ file' = write_host_file(RestoreContent)
                  /\ injectable_functions' = Tail(injectable_functions)
                  /\ ipc' = "loop"
     \/ /\ ipc' = "finally_raised"
        /\ UNCHANGED <<file, injectable_functions, results, commands>>
  /\ UNCHANGED <<code, args, needed_helpers, stack, pc, types, globals_list, macros,
                 context_parts, run, prev_output, batch, harness, append, extras,
                 original_code, original_code_without_main, run_mutation_testing>>

\* run_mull returns (mull_success tells whether the report file exists), the
\* result is recorded and the original is restored; or run_mull raises.
RunMull ==
  /\ ipc = "mull"
  /\ \/ \E p \in BuildProcesses, mull_success \in BOOLEAN :
          /\ commands' = Append(commands, Event("mull", p))
          /\ results' = Append(results, [build |-> TRUE, test |-> TRUE, mull |-> mull_success])
          /\ file' = write_host_file(RestoreContent)
          /\ injectable_functions' = Tail(injectable_functions)
          /\ ipc' = "loop"
     \/ /\ ipc' = "finally_raised"
        /\ UNCHANGED <<file, injectable_functions, results, commands>>
  /\ UNCHANGED <<code, args, needed_helpers, stack, pc, types, globals_list, macros,
                 context_parts, run, prev_output, batch, harness, append, extras,
                 original_code, original_code_without_main, run_mutation_testing>>

\* The list is exhausted.
LoopEnd ==
  /\ ipc = "loop"
  /\ injectable_functions = <<>>
  /\ ipc' = "finally"
  /\ UNCHANGED <<code, args, needed_helpers, stack, pc, types, globals_list, macros,
                 context_parts, run, prev_output, batch, harness, append, extras,
                 file, original_code, original_code_without_main,
                 injectable_functions, results, run_mutation_testing, commands>>

\* The finally clause, then the summary and the return, or the exception
\* going on to the caller.
Finally ==
  /\ ipc \in {"finally", "finally_raised"}
  /\ file' = write_host_file(RestoreContent)
  /\ ipc' = IF ipc = "finally" THEN "returned" ELSE "propagated"
  /\ UNCHANGED <<code, args, needed_helpers, stack, pc, types, globals_list, macros,
                 context_parts, run, prev_output, batch, harness, append, extras,
                 original_code, original_code_without_main,
                 injectable_functions, results, run_mutation_testing, commands>>

\* Inputs: a source file of the catalogue and a list of at most
\* MaxInjectables entries.  test_container_one.py has no mutation testing.
InitInject ==
  /\ file \in SourceFiles
  /\ injectable_functions \in StringsOver(Injectables, MaxInjectables)
  /\ original_code = <<>> /\ original_code_without_main = <<>>
  /\ results = <<>>
  /\ run_mutation_testing = FALSE /\ commands = <<>>
  /\ ipc = "start"
  /\ NoEngine /\ NoHarness /\ NoAppend /\ NoExtras

InjectNext ==
  \/ ReadOriginal
  \/ NextInjectable
  \/ BuildProgram
  \/ RunTests
  \/ LoopEnd
  \/ Finally

InjectSpec == InitInject /\ [][InjectNext]_vars

\* test_container_one_mull.py: the same loop with run_mutation_testing given
\* by the caller.
InitMull ==
  /\ file \in SourceFiles
  /\ injectable_functions \in StringsOver(Injectables, MaxInjectables)
  /\ original_code = <<>> /\ original_code_without_main = <<>>
  /\ results = <<>>
  /\ run_mutation_testing \in BOOLEAN /\ commands = <<>>
  /\ ipc = "start"
  /\ NoEngine /\ NoHarness /\ NoAppend /\ NoExtras

MullNext ==
  \/ InjectNext
  \/ RunMull

MullSpec == InitMull /\ [][MullNext]_vars

(***************************************************************************)
(* The loop of test_harness.py.                                            *)
(***************************************************************************)
\* The lines a client may send: a JSON object (a payload), text that is not
\* JSON, an empty line, and JSON that is not an object (a list, a number, ...).
RequestLines ==
  { [text |-> "{\"program\": \"pwd\"}", json |-> TRUE, object |-> TRUE],
    [text |-> "{oops", json |-> FALSE, object |-> FALSE],
    [text |-> "", json |-> FALSE, object |-> FALSE],
    [text |-> "[]", json |-> TRUE, object |-> FALSE] }

\* compile_and_run_tests(data): "pass", the call returns None.
compile_and_run_tests(data) == "None"
\* handle_payload(data), for a dict: data.keys() is printed to stderr.
handle_payload(data) == compile_and_run_tests(data)
\* json.dumps(value)
json_dumps(value) == IF value = "None" THEN "null" ELSE value

\* One turn of "while True": input(), json.loads, handle_payload, print.
\* json.loads raises JSONDecodeError on text that is not JSON: the error
\* object is printed and the loop continues.  On JSON that is not an object
\* data.keys() raises AttributeError, which nothing catches.
HandleLine ==
  /\ hpc = "loop"
  /\ stdin # <<>>
  /\ LET line == Head(stdin) IN
     /\ stdin' = Tail(stdin)
     /\ consumed' = Append(consumed, line)
     /\ IF ~line.json
        THEN /\ stdout' = Append(stdout, [error |-> TRUE, line |-> "{\"error\": \"Invalid JSON\"}"])
             /\ hpc' = hpc
        ELSE IF line.object
        THEN /\ stdout' = Append(stdout, [error |-> FALSE,
                                          line |-> json_dumps(handle_payload(line))])
             /\ hpc' = hpc
        ELSE /\ hpc' = "raised"
             /\ UNCHANGED stdout
  /\ UNCHANGED <<code, args, needed_helpers, stack, pc, types, globals_list, macros,
                 context_parts, run, prev_output, batch, inject, append, extras>>

\* input() at the end of the input raises EOFError, which nothing catches.
EndOfInput ==
  /\ hpc = "loop"
  /\ stdin = <<>>
  /\ hpc' = "raised"
  /\ UNCHANGED <<code, args, needed_helpers, stack, pc, types, globals_list, macros,
                 context_parts, run, prev_output, batch, inject, append, extras,
                 stdin, consumed, stdout>>

InitHarness ==
  /\ stdin \in StringsOver(RequestLines, MaxLines)
  /\ consumed = <<>> /\ stdout = <<>>
  /\ hpc = "loop"
  /\ NoEngine /\ NoInject /\ NoAppend /\ NoExtras

HarnessNext ==
  \/ HandleLine
  \/ EndOfInput

HarnessSpec == InitHarness /\ [][HarnessNext]_vars

(***************************************************************************)
(* generate_tests_for_one_coreutils_program.  A function name is the       *)
(* sequence of its characters.                                             *)
(***************************************************************************)
\* The characters [0-9a-zA-Z_] of a name.
WordChars == {"f", "g", "_"}
\* Function names of the source file: two plain names and two names that
\* differ in a character outside [0-9a-zA-Z_].
FunctionNames == { <<"f">>, <<"g">>, <<"f", "$">>, <<"f", "_">> }

\* function_name_clean = re.sub(r'[^0-9a-zA-Z_]', '_', function_name)
function_name_clean(function_name) ==
  [i \in 1..Len(function_name) |->
     IF function_name[i] \in WordChars THEN function_name[i] ELSE "_"]

\* What the converter does: it raises, or it returns a result whose tests_c
\* is a text, blank or not, inside a Markdown code block opened with the
\* language c, inside one opened without a language, or inside none.
LlmResults ==
  { [raises |-> TRUE, fence |-> "none", body |-> ""] }
  \cup { [raises |-> FALSE, fence |-> fence, body |-> body] :
           fence \in {"none", "c", "plain"}, body \in {"", "void test_f(void) {}"} }

\* generate_unity_tests_with_llm: False on an exception and on a blank
\* tests_c; otherwise the text between the fences, stripped (empty when the
\* fences hold nothing), or the text itself.
generate_unity_tests_with_llm(result) ==
  IF result.raises THEN "False"
  ELSE IF result.fence = "none" /\ result.body = "" THEN "False"
  ELSE result.body
\* "if tests_c_result:"
Truthy(tests_c_result) == tests_c_result \notin {"False", ""}

\* One turn of the loop: the entry is appended to injectable_functions, the
\* tests are asked for, and the test file is written when there are any (the
\* write may raise).
GenerateForFunction ==
  /\ gpc = "loop"
  /\ function_info # <<>>
  /\ LET func == Head(function_info)
         path == function_name_clean(func)
     IN /\ metadata' = Append(metadata, func)
        /\ function_info' = Tail(function_info)
        /\ \E result \in LlmResults :
             IF Truthy(generate_unity_tests_with_llm(result))
             THEN \/ test_files' = test_files \cup {path} /\ gpc' = gpc
                  \/ UNCHANGED test_files /\ gpc' = "raised"
             ELSE UNCHANGED <<test_files, gpc>>
  /\ UNCHANGED <<code, args, needed_helpers, stack, pc, types, globals_list, macros,
                 context_parts, run, prev_output, batch, inject, harness, append,
                 pipeline, metadata_file, reported_count>>

\* After the loop: json.dump(injectable_functions, f) and
\* print(f"Generated tests for {len(injectable_functions)} functions")
WriteMetadata ==
  /\ gpc = "loop"
  /\ function_info = <<>>
  /\ metadata_file' = metadata
  /\ reported_count' = Len(metadata)
  /\ gpc' = "complete"
  /\ UNCHANGED <<code, args, needed_helpers, stack, pc, types, globals_list, macros,
                 context_parts, run, prev_output, batch, inject, harness, append,
                 pipeline, function_info, metadata, test_files>>

\* Inputs: a source file with at most MaxFunctions functions besides main.
InitGen ==
  /\ function_info \in StringsOver(FunctionNames, MaxFunctions)
  /\ metadata = <<>> /\ test_files = {}
  /\ metadata_file = <<>> /\ reported_count = 0
  /\ gpc = "loop"
  /\ NoEngine /\ NoInject /\ NoHarness /\ NoAppend /\ NoPipeline

GenNext ==
  \/ GenerateForFunction
  \/ WriteMetadata

GenSpec == InitGen /\ [][GenNext]_vars

(***************************************************************************)
(* simple_programs_execute.py: the loop over default_progs, and            *)
(* run_build_execute_mutate_for_one_coreutils_program, which it calls.     *)
(***************************************************************************)
Programs == {"pwd", "cat"}

\* The number of the program the loop is at.
CurrentProgram == Len(default_progs) - Len(progs_todo) + 1

\* The call for the next program begins: tempfile.mkdtemp.
MakeTempDir ==
  /\ dpc = "batch_loop"
  /\ progs_todo # <<>>
  /\ temp_dirs' = temp_dirs \cup {CurrentProgram}
  /\ steps' = <<"mkdtemp">>
  /\ pending' = ""
  /\ dpc' = "copytree"
  /\ UNCHANGED <<code, args, needed_helpers, stack, pc, types, globals_list, macros,
                 context_parts, run, prev_output, batch, inject, harness, append, gen,
                 default_progs, progs_todo, success, failed, enable_mutation_testing,
                 container>>

\* shutil.copytree, before the try statement: it returns, or it raises and
\* the exception leaves the call.
CopyTree ==
  /\ dpc = "copytree"
  /\ steps' = Append(steps, "copytree")
  /\ \/ dpc' = "start_container" /\ UNCHANGED pending
     \/ dpc' = "call_end" /\ pending' = "Exception"
  /\ UNCHANGED <<code, args, needed_helpers, stack, pc, types, globals_list, macros,
                 context_parts, run, prev_output, batch, inject, harness, append, gen,
                 default_progs, progs_todo, success, failed, enable_mutation_testing,
                 temp_dirs, container>>

\* start_container: the container runs, or podman fails and SystemExit is
\* raised.
StartContainer ==
  /\ dpc = "start_container"
  /\ steps' = Append(steps, "start_container")
  /\ \/ /\ container' = TRUE
        /\ dpc' = IF enable_mutation_testing THEN "clean_build" ELSE "inject_and_test"
        /\ UNCHANGED pending
     \/ /\ container' = FALSE
        /\ pending' = "SystemExit"
        /\ dpc' = "stop_container"
  /\ UNCHANGED <<code, args, needed_helpers, stack, pc, types, globals_list, macros,
                 context_parts, run, prev_output, batch, inject, harness, append, gen,
                 default_progs, progs_todo, success, failed, enable_mutation_testing,
                 temp_dirs>>

\* clean_build returns True whatever make clean did.
clean_build(p) == IF run_in_container(p).returncode = 0 THEN TRUE ELSE TRUE
CleanBuild ==
  /\ dpc = "clean_build"
  /\ steps' = Append(steps, "clean_build")
  /\ \E p \in BuildProcesses :
       IF clean_build(p)
       THEN dpc' = "configure_with_mull" /\ UNCHANGED pending
       ELSE dpc' = "stop_container" /\ pending' = "SystemExit"
  /\ UNCHANGED <<code, args, needed_helpers, stack, pc, types, globals_list, macros,
                 context_parts, run, prev_output, batch, inject, harness, append, gen,
                 default_progs, progs_todo, success, failed, enable_mutation_testing,
                 temp_dirs, container>>

\* configure_with_mull: True iff configure ended with 0; SystemExit otherwise.
configure_with_mull(p) == run_in_container(p).returncode = 0
ConfigureWithMull ==
  /\ dpc = "configure_with_mull"
  /\ steps' = Append(steps, "configure_with_mull")
  /\ \E p \in BuildProcesses :
       IF configure_with_mull(p)
       THEN dpc' = "inject_and_test" /\ UNCHANGED pending
       ELSE dpc' = "stop_container" /\ pending' = "SystemExit"
  /\ UNCHANGED <<code, args, needed_helpers, stack, pc, types, globals_list, macros,
                 context_parts, run, prev_output, batch, inject, harness, append, gen,
                 default_progs, progs_todo, success, failed, enable_mutation_testing,
                 temp_dirs, container>>

\* inject_and_test returns or lets an exception through.
InjectAndTest ==
  /\ dpc = "inject_and_test"
  /\ steps' = Append(steps, "inject_and_test")
  /\ pending' \in {"", "Exception"}
  /\ dpc' = "stop_container"
  /\ UNCHANGED <<code, args, needed_helpers, stack, pc, types, globals_list, macros,
                 context_parts, run, prev_output, batch, inject, harness, append, gen,
                 default_progs, progs_todo, success, failed, enable_mutation_testing,
                 temp_dirs, container>>

\* finally: stop_container()
StopContainer ==
  /\ dpc = "stop_container"
  /\ steps' = Append(steps, "stop_container")
  /\ container' = FALSE
  /\ dpc' = "copy_results_back"
  /\ UNCHANGED <<code, args, needed_helpers, stack, pc, types, globals_list, macros,
                 context_parts, run, prev_output, batch, inject, harness, append, gen,
                 default_progs, progs_todo, success, failed, enable_mutation_testing,
                 temp_dirs, pending>>

\* finally: copy_results_back(...); an exception of a copy takes the place
\* of the one in flight and ends the finally clause.
CopyResultsBack ==
  /\ dpc = "copy_results_back"
  /\ steps' = Append(steps, "copy_results_back")
  /\ \/ dpc' = "rmtree" /\ UNCHANGED pending
     \/ dpc' = "call_end" /\ pending' = "Exception"
  /\ UNCHANGED <<code, args, needed_helpers, stack, pc, types, globals_list, macros,
                 context_parts, run, prev_output, batch, inject, harness, append, gen,
                 default_progs, progs_todo, success, failed, enable_mutation_testing,
                 temp_dirs, container>>

\* finally: shutil.rmtree(temp_dir, ignore_errors=True)
RemoveTempDir ==
  /\ dpc = "rmtree"
  /\ steps' = Append(steps, "rmtree")
  /\ temp_dirs' = temp_dirs \ {CurrentProgram}
  /\ dpc' = "call_end"
  /\ UNCHANGED <<code, args, needed_helpers, stack, pc, types, globals_list, macros,
                 context_parts, run, prev_output, batch, inject, harness, append, gen,
                 default_progs, progs_todo, success, failed, enable_mutation_testing,
                 container, pending>>

\* "except Exception" catches the exceptions that derive from Exception;
\* SystemExit does not.
\* (CaughtAll: a handler that catches every exception.)
CaughtAll(exception) == exception \in {"Exception", "SystemExit"}
Caught(exception) == exception = "Exception"

\* The call is over: success is counted, or the handler counts the failure
\* and the loop goes on, or the exception leaves the loop and the script.
CallEnd ==
  /\ dpc = "call_end"
  /\ IF pending = ""
     THEN /\ success' = success + 1
          /\ progs_todo' = Tail(progs_todo)
          /\ dpc' = "batch_loop"
          /\ UNCHANGED failed
     ELSE IF Caught(pending)
     THEN /\ failed' = failed + 1
          /\ progs_todo' = Tail(progs_todo)
          /\ dpc' = "batch_loop"
          /\ UNCHANGED success
     ELSE /\ dpc' = "terminated"
          /\ UNCHANGED <<success, failed, progs_todo>>
  /\ UNCHANGED <<code, args, needed_helpers, stack, pc, types, globals_list, macros,
                 context_parts, run, prev_output, batch, inject, harness, append, gen,
                 default_progs, enable_mutation_testing, temp_dirs, container, steps,
                 pending>>

\* After the loop: print(f"SUMMARY: {success} success, {failed} failed")
Summary ==
  /\ dpc = "batch_loop"
  /\ progs_todo = <<>>
  /\ dpc' = "summary"
  /\ UNCHANGED <<code, args, needed_helpers, stack, pc, types, globals_list, macros,
                 context_parts, run, prev_output, batch, inject, harness, append, gen,
                 default_progs, progs_todo, success, failed, enable_mutation_testing,
                 temp_dirs, container, steps, pending>>

\* Inputs: a list of at most MaxProgs programs; the script asks for mutation
\* testing; no container runs.
InitPipeline ==
  /\ default_progs \in StringsOver(Programs, MaxProgs)
  /\ progs_todo = default_progs
  /\ success = 0 /\ failed = 0
  /\ enable_mutation_testing = TRUE
  /\ temp_dirs = {}
  /\ container = FALSE
  /\ steps = <<>> /\ pending = ""
  /\ dpc = "batch_loop"
  /\ NoEngine /\ NoInject /\ NoHarness /\ NoAppend /\ NoGen

PipelineNext ==
  \/ MakeTempDir
  \/ CopyTree
  \/ StartContainer
  \/ CleanBuild
  \/ ConfigureWithMull
  \/ InjectAndTest
  \/ StopContainer
  \/ CopyResultsBack
  \/ RemoveTempDir
  \/ CallEnd
  \/ Summary

PipelineSpec == InitPipeline /\ [][PipelineNext]_vars

(***************************************************************************)
(* Properties.                                                             *)
(***************************************************************************)
\* The call graph over the indexed functions, and the functions a call path
\* of exactly k edges leads to from the target.
IndexedCalls(f) == IF f \in function_map THEN Calls(f) \cap function_map ELSE {}
RECURSIVE Level(_)
Level(k) ==
  IF k = 1 THEN IndexedCalls(target)
  ELSE UNION {IndexedCalls(f) : f \in Level(k - 1)}
\* Length of the shortest call path from the target to h, 0 when there is none
\* (a shortest path repeats no function but, at most, the target at its end).
ShortestPath(h) ==
  LET ks == {k \in 1..Cardinality(Defined) : h \in Level(k)}
  IN IF ks = {} THEN 0 ELSE CHOOSE k \in ks : \A j \in ks : k <= j

ClosureFinished == (pc = "closure" /\ stack = <<>>) \/ pc \in {"globals", "assemble", "done"}

\* C1: when the closure finishes (max_depth >= 1), every helper recorded in
\* needed_helpers has a depth equal to the length of the shortest call path
\* from the target to it.
C1_DepthIsShortestPath ==
  (ClosureFinished /\ max_depth >= 1) =>
    \A i \in 1..Len(needed_helpers) :
      needed_helpers[i].depth = ShortestPath(needed_helpers[i].name)

\* A finished closure holding a direct callee of the target that another
\* helper calls too: it has a longer call path as well as the edge from the target.
C1_Witness ==
  /\ ClosureFinished /\ max_depth >= 2
  /\ \E i, j \in 1..Len(needed_helpers) :
       /\ i # j
       /\ needed_helpers[i].depth = 1
       /\ needed_helpers[j].name # target
       /\ needed_helpers[i].name \in Calls(needed_helpers[j].name)
       /\ needed_helpers[j].depth = 1

\* The functions the helper section of the text emits, as a body or as a stub.
EmittedHelpers ==
  {context_parts[i].name : i \in {j \in 1..Len(context_parts) :
      context_parts[j].sec = "helpers" /\ context_parts[j].kind \in {"code", "stub"}}}

\* C2: the dependency closure never contains the target function itself, and
\* the target is never emitted in the helper section.
C2_TargetNeverHelper ==
  /\ target \notin Keys(needed_helpers)
  /\ target \notin EmittedHelpers

\* C3: no function whose name is in the exclusion set is ever recorded in the
\* closure or emitted in the helper section.
C3_NoExcludedHelper ==
  /\ Keys(needed_helpers) \cap stdlib_functions = {}
  /\ EmittedHelpers \cap stdlib_functions = {}

\* C6: with max_depth = 0 the closure and the helper section are empty.
C6_DepthZeroNoHelpers ==
  max_depth = 0 =>
    /\ needed_helpers = <<>>
    /\ \A i \in 1..Len(context_parts) : context_parts[i].sec # "helpers"

\* The text is assembled, with max_depth = 0, for a target that is indexed and
\* calls indexed functions.
C6_Witness ==
  /\ pc = "done" /\ max_depth = 0
  /\ target \in function_map
  /\ Cardinality(IndexedCalls(target)) >= 2

\* C7: the closure terminates on every call graph, cyclic ones included: the
\* run reaches the end of reconstruct_minimal_context.
C7_Terminates == <>(pc = "done")

\* A finished run, with the default max_depth, on a graph where the target
\* lies on a call cycle through another function.
C7_Witness ==
  /\ pc = "done" /\ max_depth = DefaultMaxDepth
  /\ target \in Keys(needed_helpers)
  /\ ShortestPath(target) >= 2

\* C4: two runs of the engine on the same source, target, function index and
\* max_depth produce identical text, whatever order the call sets are iterated in.
C4_SameOutput ==
  (run = 2 /\ pc = "done") => context_parts = prev_output

\* C5: the text returned contains the whole span of the target function,
\* emitted in the target section as a full body, never as a signature stub.
C5_TargetInFull ==
  pc = "done" =>
    /\ \E i \in 1..Len(context_parts) :
         /\ context_parts[i].sec = "target" /\ context_parts[i].kind = "code"
         /\ context_parts[i].body = <<FuncCode(target)>>
    /\ \A i \in 1..Len(context_parts) :
         context_parts[i].sec = "target" => context_parts[i].kind # "stub"

\* The text is assembled for a large target that has helpers, a large one
\* among them.
C5_Witness ==
  /\ pc = "done"
  /\ CountNewlines(target) >= FullBodyLimit
  /\ \E i \in 1..Len(needed_helpers) :
       /\ needed_helpers[i].name # target
       /\ needed_helpers[i].depth > 1
       /\ CountNewlines(needed_helpers[i].name) >= FullBodyLimit

\* The tags that occur as 'struct X' or 'enum X' in the text of the target or
\* of a helper of the closure.
TagsUsed ==
  UNION {KeywordRefs("struct", func_words[f]) \cup KeywordRefs("enum", func_words[f]) :
           f \in {target} \cup Keys(needed_helpers)}
\* A struct / enum specifier node that declares tag X: it names X and has a body.
Declares(node, X) ==
  /\ node.kind \in {"struct_specifier", "enum_specifier"}
  /\ node.child_tag = X
  /\ "{" \in Range(node.words)
\* The declaration texts of the type section.
EmittedDecls(sec) ==
  {context_parts[i].body : i \in {j \in 1..Len(context_parts) :
      context_parts[j].sec = sec /\ context_parts[j].kind = "decl"}}
SectionOf(node) == IF node.kind = "struct_specifier" THEN "structs" ELSE "enums"

\* C8 as stated: for every tag X that occurs as 'struct X' or 'enum X' in the
\* target or in a helper, the text contains a declaration for X.
C8_EveryUsedTagDeclared ==
  pc = "done" =>
    \A X \in TagsUsed :
      \E i \in 1..Len(type_nodes) :
        /\ Declares(type_nodes[i], X)
        /\ type_nodes[i].words \in EmittedDecls(SectionOf(type_nodes[i]))

\* C8 amended: for every such tag X, the text contains the literal text of
\* every struct or enum declaration of X that the unit holds.
C8_UsedTagsDeclarationsKept ==
  pc = "done" =>
    \A X \in TagsUsed :
      \A i \in 1..Len(type_nodes) :
        Declares(type_nodes[i], X) =>
          type_nodes[i].words \in EmittedDecls(SectionOf(type_nodes[i]))

\* The text is assembled for a unit that declares a tag which a helper, and
\* not the target, uses.
C8_Witness ==
  /\ pc = "done"
  /\ \E X \in TagsUsed :
       /\ X \notin FuncRefs(target)
       /\ \E i \in 1..Len(type_nodes) : Declares(type_nodes[i], X)

\* The helper section's parts for helper h.
HelperEmitted(h, kind) ==
  \E i \in 1..Len(context_parts) :
    /\ context_parts[i].sec = "helpers" /\ context_parts[i].kind = kind
    /\ context_parts[i].name = h.name /\ context_parts[i].depth = h.depth

\* C9 as stated: a helper is emitted in full iff its body spans fewer than 50
\* non-empty lines or its depth is 1, and as a signature stub otherwise.
C9_FullIffFewNonEmptyLines ==
  pc = "done" =>
    \A i \in 1..Len(needed_helpers) :
      LET h == needed_helpers[i]
          full == NonEmptyLines(h.name) < FullBodyLimit \/ h.depth = 1
      IN /\ HelperEmitted(h, "code") <=> full
         /\ HelperEmitted(h, "stub") <=> ~full

\* C9 amended: a helper is emitted in full iff its text holds fewer than 50
\* newline characters or its depth is 1, and as a signature stub otherwise.
C9_FullIffFewNewlines ==
  pc = "done" =>
    \A i \in 1..Len(needed_helpers) :
      LET h == needed_helpers[i]
          full == CountNewlines(h.name) < FullBodyLimit \/ h.depth = 1
      IN /\ HelperEmitted(h, "code") <=> full
         /\ HelperEmitted(h, "stub") <=> ~full

\* The text is assembled with a large direct callee (in full) and a large
\* helper of depth 2 (a stub).
C9_Witness ==
  /\ pc = "done"
  /\ \E i, j \in 1..Len(needed_helpers) :
       /\ needed_helpers[i].depth = 1
       /\ CountNewlines(needed_helpers[i].name) >= FullBodyLimit
       /\ HelperEmitted(needed_helpers[i], "code")
       /\ needed_helpers[j].depth = 2
       /\ CountNewlines(needed_helpers[j].name) >= FullBodyLimit
       /\ HelperEmitted(needed_helpers[j], "stub")

\* The place of a section in the fixed order.
SecRank(sec) ==
  CASE sec = "header" -> 1
    [] sec = "types" -> 2
    [] sec = "structs" -> 3
    [] sec = "enums" -> 4
    [] sec = "typedefs" -> 5
    [] sec = "macros" -> 6
    [] sec = "globals" -> 7
    [] sec = "helpers" -> 8
    [] sec = "target" -> 9

\* C10: the sections appear in the order header, types (structs, enums,
\* typedefs), macros, globals, helpers, target; the target function is last.
C10_SectionOrder ==
  pc = "done" =>
    /\ context_parts[1].sec = "header"
    /\ \A i, j \in 1..Len(context_parts) :
         i < j => SecRank(context_parts[i].sec) <= SecRank(context_parts[j].sec)
    /\ LET last == context_parts[Len(context_parts)]
       IN last.sec = "target" /\ last.kind = "code" /\ last.name = target

\* The text is assembled with every section present.
C10_Witness ==
  /\ pc = "done"
  /\ {context_parts[i].sec : i \in 1..Len(context_parts)} =
       {"header", "types", "structs", "enums", "typedefs", "macros", "globals",
        "helpers", "target"}

\* The lines of the macro section and the declarations of the global section.
EmittedLines(sec) ==
  IF \E i \in 1..Len(context_parts) :
       context_parts[i].sec = sec /\ context_parts[i].kind = "lines"
  THEN context_parts[CHOOSE i \in 1..Len(context_parts) :
         context_parts[i].sec = sec /\ context_parts[i].kind = "lines"].body
  ELSE <<>>
\* The #define lines of the file and its file-scope declarations that are
\* not function declarations, by their place in the source.
MatchedLines == {k \in 1..Len(source_lines) : source_lines[k].text.first = "#define"}
MatchedDecls ==
  {k \in 1..Len(file_decls) :
     LET c == file_decls[k].decl IN ~c.paren \/ ~c.semicolon \/ c.brace}
\* body is, in source order, the first elements of src whose place is in
\* matched, cap of them at most.
FirstMatched(body, src, matched, cap) ==
  /\ Len(body) <= cap
  /\ Len(body) = IF Cardinality(matched) < cap THEN Cardinality(matched) ELSE cap
  /\ \A i \in 1..Len(body) : body[i].no \in matched /\ body[i] = src[body[i].no]
  /\ \A i \in 1..(Len(body) - 1) : body[i].no < body[i + 1].no
  /\ \A k \in matched :
       (body # <<>> /\ k < body[Len(body)].no) => \E i \in 1..Len(body) : body[i].no = k

\* C11: the text holds at most 100 macro lines and at most 50 global
\* declarations, and they are exactly the first 100 matched #define lines and
\* the first 50 matched file-scope declarations, in source order.
C11_FirstMatchedUpToCap ==
  pc = "done" =>
    /\ FirstMatched(EmittedLines("macros"), source_lines, MatchedLines, MacroCap)
    /\ FirstMatched(EmittedLines("globals"), file_decls, MatchedDecls, GlobalCap)

\* The text is assembled for a unit with more matched lines than either cap
\* allows and with lines that do not match among them.
C11_Witness ==
  /\ pc = "done"
  /\ Cardinality(MatchedLines) > MacroCap
  /\ Cardinality(MatchedDecls) > GlobalCap
  /\ Len(source_lines) > Cardinality(MatchedLines)
  /\ Len(file_decls) > Cardinality(MatchedDecls)
  /\ Len(EmittedLines("macros")) = MacroCap
  /\ Len(EmittedLines("globals")) = GlobalCap

\* The names the target or a function of its closure mentions.
NamesMentioned ==
  UNION {Range(func_words[f]) : f \in {target} \cup Keys(needed_helpers)}

PlaceIn(matched, k) == Cardinality({j \in matched : j <= k})

HelperPlaces ==
  {i \in 1..Len(context_parts) :
     context_parts[i].sec = "helpers" /\ context_parts[i].kind \in {"code", "stub"}}

\* C12: the helpers are emitted in ascending order of depth, so that every
\* direct call of the target comes before every helper that is not one.
C12_HelpersAscending ==
  pc = "done" =>
    \A i, j \in HelperPlaces :
      i < j =>
        /\ context_parts[i].depth <= context_parts[j].depth
        /\ context_parts[j].name \in IndexedCalls(target)
             => context_parts[i].name \in IndexedCalls(target)

\* The text is assembled from a closure that recorded a helper of depth 2
\* before one of depth 1, and emits both.
C12_Witness ==
  /\ pc = "done"
  /\ \E i, j \in 1..Len(needed_helpers) :
       /\ i < j
       /\ needed_helpers[i].depth = 2 /\ needed_helpers[j].depth = 1
       /\ \E k \in HelperPlaces : context_parts[k].name = needed_helpers[i].name
       /\ \E k \in HelperPlaces : context_parts[k].name = needed_helpers[j].name

\* C20: with max_depth D no function is recorded at a depth greater than D,
\* no call of find_dependencies runs its loop at a depth greater than D (the
\* calls of a function recorded at depth D are not read), and a function
\* whose shortest call distance from the target exceeds D is not in the
\* closure.
C20_DepthBounded ==
  /\ \A i \in 1..Len(needed_helpers) : needed_helpers[i].depth <= max_depth
  /\ \A i \in 1..Len(stack) : stack[i].current_depth <= max_depth
  /\ \A f \in Defined :
       (ShortestPath(f) = 0 \/ ShortestPath(f) > max_depth) => f \notin Keys(needed_helpers)

\* A finished closure, with max_depth 2, of a target from which a chain of
\* three calls leads to an indexed function: the second function of the chain
\* is recorded at depth 2 and the third, its callee, is not recorded.
C20_Witness ==
  /\ ClosureFinished /\ max_depth = 2
  /\ \E g, h \in function_map :
       /\ HasKey(needed_helpers, g) /\ DepthOf(needed_helpers, g) = max_depth
       /\ h \in IndexedCalls(g)
       /\ ShortestPath(h) = max_depth + 1
       /\ ~HasKey(needed_helpers, h)

\* The positions of a running call of reconstruct_minimal_context.
EnginePcs == {"start", "closure", "globals", "assemble", "done"}

\* C13: when the unit has no main function, extract_target_functions_from_main
\* reports it and returns an empty list without raising, and the batch driver
\* calls the engine for no target and writes no reconstructed unit.
C13_NoMainNoUnit ==
  ~has_main =>
    /\ pc \in {"batch_start", "batch_loop", "exit"}
    /\ pc # "batch_start" =>
         /\ reported = <<"ERROR: Could not find main() function">>
         /\ target_functions = <<>>
    /\ written = <<>>

\* The script has ended on a unit without main that defines functions which
\* call each other.
C13_Witness ==
  /\ ~has_main /\ pc = "exit"
  /\ Cardinality(call_edges) >= 2

\* C15: in the batch pipeline the index the resolver consults holds a record
\* for every function the unit defines: every defined function (outside the
\* exclusion set) that the target or a recorded helper calls is in it.
C15_IndexHoldsCalledDefinitions ==
  pc \in EnginePcs =>
    \A f \in {target} \cup Keys(needed_helpers) :
      \A g \in Calls(f) \ stdlib_functions : g \in function_map

\* C16: in the batch pipeline, on the unit where main calls foo, foo calls
\* bar and bar calls baz, the closure computed for target foo is exactly bar
\* at depth 1 and baz at depth 2.
C16_ExampleClosure ==
  ( /\ has_main /\ main_calls = {"foo"}
    /\ call_edges = {<<"foo", "bar">>, <<"bar", "baz">>}
    /\ target = "foo" /\ pc \in {"globals", "assemble", "done"} )
  => Range(needed_helpers) = {[name |-> "bar", depth |-> 1], [name |-> "baz", depth |-> 2]}

\* How many elements of the list lines equal x.
Occurrences(lines, x) == Cardinality({k \in 1..Len(lines) : lines[k] = x})

\* C19: the include line is appended only if no line of the code equals it;
\* the result holds it as a line max(1, occurrences in the input) times; a
\* second application returns the string the first one returned.
C19_AppendOnceIdempotent ==
  LET before == splitlines(code_without_main)
      n == Occurrences(before, include_line)
  IN /\ Len(applied) >= 1 =>
          LET after == splitlines(applied[1]) IN
          /\ Occurrences(after, include_line) = IF n > 1 THEN n ELSE 1
          /\ n > 0 => after = before
          /\ n = 0 => after = Append(before, include_line)
     /\ Len(applied) = 2 => applied[2] = applied[1]

\* The function was applied twice to a text with CR LF line ends that does
\* not hold the include line and does not end with a terminator: the first
\* application appended the line.
C19_Witness ==
  /\ Len(applied) = 2
  /\ include_line # <<>>
  /\ Occurrences(splitlines(code_without_main), include_line) = 0
  /\ Len(splitlines(code_without_main)) = 2
  /\ CR \in Range(code_without_main) /\ LF \in Range(code_without_main)
  /\ code_without_main[Len(code_without_main)] \in TextChars
  /\ Len(splitlines(applied[1])) = 3

\* C17: once inject_and_test has read the source file, on every exit (the
\* list processed, builds or tests failed, an exception raised in the loop)
\* the file holds exactly the content read at the start, main included.
C17_SourceRestored ==
  ipc \in {"returned", "propagated"} =>
    /\ file = original_code
    /\ Occurrences(file, MainSpan) = Occurrences(original_code, MainSpan)

\* An exception left the loop after an entry had been built and tested, on
\* a source file that has a main function the working text lacks.
C17_Witness ==
  /\ ipc = "propagated"
  /\ results # <<>> /\ results[1].build
  /\ Occurrences(original_code, MainSpan) = 1
  /\ original_code_without_main # original_code

\* C18: the loop writes exactly one JSON line to stdout for every input line
\* it reads, in the order of the requests: an error object for a line that is
\* not valid JSON, the result of handle_payload for a valid one.
C18_OneLinePerRequest ==
  /\ Len(stdout) = Len(consumed)
  /\ \A k \in 1..Len(stdout) : stdout[k].error = ~consumed[k].json

\* The depth recorded for name in map d, 0 when it has no entry.
DepthOrZero(d, name) == IF HasKey(d, name) THEN DepthOf(d, name) ELSE 0

\* C21: during the closure the depth recorded for a function never
\* increases: an entry is overwritten only by a strictly smaller depth, and
\* every recording, first or overwriting, at depth d is followed at once by
\* the expansion of that function's calls at depth d + 1 (a call that the
\* depth bound lets run).
C21_DepthOnlyDecreases ==
  [][ pc = "closure" =>
        \A name \in Defined :
          /\ HasKey(needed_helpers, name) =>
               /\ HasKey(needed_helpers', name)
               /\ DepthOf(needed_helpers', name) <= DepthOf(needed_helpers, name)
          /\ ( HasKey(needed_helpers', name)
               /\ DepthOrZero(needed_helpers, name) # DepthOf(needed_helpers', name)
               /\ DepthOf(needed_helpers', name) + 1 <= max_depth )
             => /\ stack' # <<>>
                /\ stack'[Len(stack')] =
                     [func_name |-> name,
                      current_depth |-> DepthOf(needed_helpers', name) + 1,
                      calls |-> Calls(name)]
                /\ Len(stack') = Len(stack) + 1 ]_vars

\* A function recorded at depth d has just begun to be expanded at depth
\* d + 1, and one of its calls is recorded deeper than d + 1: that entry is
\* about to be overwritten.
C21_Witness ==
  /\ pc = "closure" /\ stack # <<>>
  /\ LET top == stack[Len(stack)] IN
       /\ HasKey(needed_helpers, top.func_name)
       /\ DepthOf(needed_helpers, top.func_name) = top.current_depth - 1
       /\ top.calls = Calls(top.func_name)
       /\ \E h \in top.calls :
            /\ HasKey(needed_helpers, h)
            /\ DepthOf(needed_helpers, h) > top.current_depth

\* A reference breadth-first expansion, depth by depth: the functions of one
\* depth are recorded, then the indexed calls they make that have no entry yet
\* form the next depth, up to depth D.
RECURSIVE BreadthFirst(_, _, _)
BreadthFirst(frontier, found, k) ==
  IF k > max_depth \/ frontier = {} THEN found
  ELSE LET now == found \cup {[name |-> f, depth |-> k] : f \in frontier}
           seen == {e.name : e \in now}
       IN BreadthFirst(UNION {IndexedCalls(f) : f \in frontier} \ seen, now, k + 1)
ReferenceClosure == BreadthFirst(IndexedCalls(target), {}, 1)

\* C22: the name-to-depth map of the recursive find_dependencies equals the
\* map of the reference breadth-first expansion that starts at depth 1 with
\* the direct calls of the target, whatever order the call sets are iterated in.
C22_EqualsBreadthFirst ==
  ClosureFinished => Range(needed_helpers) = ReferenceClosure

\* A finished closure, with max_depth 2, that holds a function of depth 1
\* which a helper calls as well, a function of depth 2, and leaves out a
\* function the bound cuts off.
C22_Witness ==
  /\ ClosureFinished /\ max_depth = 2
  /\ \E a, b \in Keys(needed_helpers) :
       /\ a # b /\ a # target /\ b # target
       /\ DepthOf(needed_helpers, a) = 1
       /\ DepthOf(needed_helpers, b) = 2
       /\ \E c \in IndexedCalls(b) : ~HasKey(needed_helpers, c)

\* C23: a function that is being expanded (it has a running call of
\* find_dependencies, the target included) is not expanded again before that
\* call returns.
C23_NoExpansionOnPath ==
  \A i, j \in 1..Len(stack) : i # j => stack[i].func_name # stack[j].func_name

\* The referenced-type vocabulary: the names the three regexes find in the
\* target and in the helpers.
Vocabulary ==
  UNION {KeywordRefs("struct", func_words[f]) \cup KeywordRefs("enum", func_words[f])
           \cup (Range(func_words[f]) \cap TypedefWhitelist) :
         f \in {target} \cup Keys(needed_helpers)}

\* C24: every struct and every enum declaration node of the unit has its
\* literal text in the output if its tag is in the vocabulary, and an
\* anonymous one (struct or enum alike) if a vocabulary name occurs in its text.
C24_TaggedAndAnonymousKept ==
  pc = "done" =>
    \A i \in 1..Len(type_nodes) :
      LET node == type_nodes[i]
          keyword == IF node.kind = "struct_specifier" THEN "struct" ELSE "enum"
          anonymous == node.child_tag = "" /\ FirstRef(keyword, node.words) = ""
      IN node.kind \in {"struct_specifier", "enum_specifier"} =>
           /\ (node.child_tag # "" /\ node.child_tag \in Vocabulary)
                => node.words \in EmittedDecls(SectionOf(node))
           /\ (anonymous /\ \E ref \in Vocabulary : ref \in Range(node.words))
                => node.words \in EmittedDecls(SectionOf(node))

\* The definition of name the traversal meets last.
LastDefinition(name) ==
  definitions[CHOOSE i \in 1..Len(definitions) :
                /\ definitions[i].name = name
                /\ \A j \in (i + 1)..Len(definitions) : definitions[j].name # name]

\* No two elements of the list of records s carry the same name.
NamesDistinct(s) == \A i, j \in 1..Len(s) : i # j => s[i].name # s[j].name

\* C25: when the unit defines a name more than once, the function index
\* keeps one record for the name, that of the definition met last in the
\* traversal; the target list and the closure hold no name twice.
C25_LastDefinitionWins ==
  /\ NamesDistinct(func_map)
  /\ \A i \in 1..Len(func_map) : func_map[i] = LastDefinition(func_map[i].name)
  /\ \A name \in target_calls :
       (\E i \in 1..Len(definitions) : definitions[i].name = name) => HasName(func_map, name)
  /\ NamesDistinct(target_functions)
  /\ \A i \in 1..Len(target_functions) :
       target_functions[i] = LastDefinition(target_functions[i].name)
  /\ NamesDistinct(needed_helpers)

\* The script has ended on a unit where a name defined twice, with another
\* definition in between, is a target and was recorded as a helper of the
\* last target.
C25_Witness ==
  /\ pc = "exit"
  /\ \E i, j \in 1..Len(definitions) :
       /\ i + 1 < j
       /\ definitions[i].name = definitions[j].name
       /\ HasName(target_functions, definitions[i].name)
       /\ HasKey(needed_helpers, definitions[i].name)
\* C26: the file that is built for an injectable function is the
\* main-stripped original plus the include line of that function only (not
\* even that line when the text holds it already), and between two
\* iterations the file holds the original.
C26_OneIncludePerBuild ==
  /\ ipc \in {"build", "test", "mull"} =>
       LET base == splitlines(original_code_without_main)
           include == Head(injectable_functions).include_line
       IN /\ splitlines(file) = IF include \in Range(base) THEN base ELSE Append(base, include)
          /\ Occurrences(file, MainSpan) = 0
          /\ \A other \in {f.include_line : f \in Injectables} \ {include, <<>>} :
               Occurrences(splitlines(file), other) = Occurrences(base, other)
  /\ (ipc = "loop" /\ commands # <<>>) => file = original_code

\* The second entry of the list is being built, after the first one was
\* built and tested with another include line, on a source file with main.
C26_Witness ==
  /\ ipc = "build"
  /\ Len(results) = 1 /\ results[1].build
  /\ Occurrences(original_code, MainSpan) = 1
  /\ Occurrences(splitlines(file), <<"j">>) = 1
  /\ Occurrences(splitlines(file), <<"i">>) = 0
  /\ \E k \in 1..Len(commands) : commands[k].command = "run"

\* What the record of the loop says of a command.
BuildSucceeded(e) == e.command = "make" /\ ~e.timed_out /\ e.exit_code = 0
TestsPassed(e) == e.command = "run" /\ ~e.timed_out /\ e.exit_code = 0 /\ ~e.fail_in_stdout

\* C27: Mull runs for a function only right after, in the same iteration,
\* the build succeeded and the tests passed (exit code 0, no FAIL in stdout),
\* and only when run_mutation_testing is set; after a build that failed or
\* timed out neither the tests nor Mull run before the next function is
\* written.
C27_MullOnlyAfterPass ==
  /\ \A k \in 1..Len(commands) :
       /\ commands[k].command = "mull" =>
            /\ run_mutation_testing
            /\ k >= 4
            /\ TestsPassed(commands[k - 1])
            /\ BuildSucceeded(commands[k - 2])
            /\ commands[k - 3].command = "write"
       /\ commands[k].command = "run" =>
            /\ k >= 3
            /\ BuildSucceeded(commands[k - 1])
            /\ commands[k - 2].command = "write"
       /\ (commands[k].command = "make" /\ ~BuildSucceeded(commands[k]) /\ k < Len(commands)) =>
            commands[k + 1].command = "write"
  /\ ipc = "mull" =>
       /\ run_mutation_testing
       /\ TestsPassed(commands[Len(commands)])

\* Mull ran for the second function after the build of the first one timed
\* out.
C27_Witness ==
  /\ Len(commands) = 6
  /\ commands[2].command = "make" /\ commands[2].timed_out
  /\ commands[3].command = "write"
  /\ commands[6].command = "mull"

\* C28: a failure while one program is processed never stops the batch:
\* when the script ends every program was attempted and the summary holds
\* success + failed = number of programs.
C28_BatchNeverStops ==
  dpc \in {"summary", "terminated"} =>
    /\ dpc = "summary"
    /\ progs_todo = <<>>
    /\ success + failed = Len(default_progs)

\* C29: every function listed in the metadata file has a test file, and the
\* count reported equals the number of test files written.
C29_ListedFunctionsHaveTests ==
  gpc = "complete" =>
    /\ \A k \in 1..Len(metadata_file) : function_name_clean(metadata_file[k]) \in test_files
    /\ reported_count = Cardinality(test_files)

\* C30: when a call of run_build_execute_mutate_for_one_coreutils_program is
\* over, the container is stopped and the temporary directory is removed,
\* and the last three steps were stop container, copy results back, remove.
C30_CleanupOnEveryExit ==
  dpc = "call_end" =>
    /\ ~container
    /\ CurrentProgram \notin temp_dirs
    /\ Len(steps) >= 3
    /\ SubSeq(steps, Len(steps) - 2, Len(steps)) = <<"stop_container", "copy_results_back", "rmtree">>
====
